---- MODULE Spec2Model ----
(***************************************************************************)
(* Model of isotop.py: enumeration of all sums of isotope masses that      *)
(* yield a target mass, each solution scored with a decimal relevance.     *)
(*                                                                         *)
(* A Decimal is a record [c |-> coefficient, e |-> exponent] whose value   *)
(* is c * 10^e.  The coefficient is a sequence of decimal digits, least    *)
(* significant digit first, without leading zeros (zero is <<0>>), so that *)
(* the working precision of 28 digits set by main() is kept as it is.      *)
(***************************************************************************)
EXTENDS Integers, Sequences, FiniteSets

\* ---------------------------------------------------------------- bounds
\* Largest target given alone on the command line.
MaxTarget == 30
\* Longest list of targets given with -t.
MaxTargets == 2

\* getcontext().prec = 28
prec == 28

\* --------------------------------------------------- decimal arithmetic
Zeros(n) == [k \in 1..n |-> 0]

\* The coefficient without leading zeros; the empty coefficient is zero.
RECURSIVE Strip(_)
Strip(c) ==
    IF c = <<>> THEN <<0>>
    ELSE IF Len(c) > 1 /\ c[Len(c)] = 0 THEN Strip(SubSeq(c, 1, Len(c) - 1))
    ELSE c

IsZero(c) == \A k \in 1..Len(c) : c[k] = 0

RECURSIVE AddCoef(_, _, _)
AddCoef(a, b, carry) ==
    IF a = <<>> /\ b = <<>> THEN (IF carry = 0 THEN <<>> ELSE <<carry>>)
    ELSE LET x == IF a = <<>> THEN 0 ELSE Head(a)
             y == IF b = <<>> THEN 0 ELSE Head(b)
             s == x + y + carry
         IN  <<s % 10>> \o AddCoef(IF a = <<>> THEN a ELSE Tail(a),
                                   IF b = <<>> THEN b ELSE Tail(b), s \div 10)

RECURSIVE MulDigit(_, _, _)
MulDigit(a, d, carry) ==
    IF a = <<>> THEN (IF carry = 0 THEN <<>> ELSE <<carry>>)
    ELSE LET p == Head(a) * d + carry
         IN  <<p % 10>> \o MulDigit(Tail(a), d, p \div 10)

RECURSIVE MulLong(_, _)
MulLong(a, b) ==
    IF b = <<>> THEN <<>>
    ELSE AddCoef(MulDigit(a, Head(b), 0), <<0>> \o MulLong(a, Tail(b)), 0)

\* The product of two coefficients, as an integer product.
MulCoef(a, b) == Strip(IF Len(a) < Len(b) THEN MulLong(b, a) ELSE MulLong(a, b))

\* The coefficient c without its k lowest digits, rounded half to even
\* (ROUND_HALF_EVEN, the rounding of the default context).
RoundDrop(c, k) ==
    LET n    == Len(c)
        kept == IF k >= n THEN <<0>> ELSE SubSeq(c, k + 1, n)
        top  == IF k = 0 \/ k > n THEN 0 ELSE c[k]
        rest == IF k <= 1 THEN <<>> ELSE SubSeq(c, 1, (IF k - 1 > n THEN n ELSE k - 1))
        up   == \/ top > 5
                \/ top = 5 /\ ~IsZero(rest)
                \/ top = 5 /\ IsZero(rest) /\ kept[1] % 2 = 1
    IN  IF up THEN Strip(AddCoef(kept, <<1>>, 0)) ELSE kept

\* Decimal._fix: a result of more than prec digits is rounded to prec digits.
Fix(x) ==
    IF Len(x.c) <= prec THEN x
    ELSE LET k == Len(x.c) - prec
             r == RoundDrop(x.c, k)
         IN  IF Len(r) > prec THEN [c |-> Tail(r), e |-> x.e + k + 1]
             ELSE [c |-> r, e |-> x.e + k]

\* The product of two decimals with no rounding.
ExactMul(x, y) == [c |-> MulCoef(x.c, y.c), e |-> x.e + y.e]

\* x to the n-th power (n >= 1) with no rounding.
RECURSIVE ExactPow(_, _)
ExactPow(x, n) == IF n <= 1 THEN x ELSE ExactMul(ExactPow(x, n - 1), x)

\* Decimal.__mul__ in the context of main().
DecMul(x, y) == Fix(ExactMul(x, y))

\* Decimal.__pow__ with a positive integer exponent in the context of main().
DecPow(x, n) == Fix(ExactPow(x, n))

RECURSIVE CoefValue(_)
CoefValue(c) == IF c = <<>> THEN 0 ELSE Head(c) + 10 * CoefValue(Tail(c))

\* Decimal.quantize(Decimal('1.00')): the value in hundredths, rounded half
\* to even.  A key of results is this number of hundredths.
Quantize(x) ==
    IF x.e >= -2 THEN CoefValue(Strip(Zeros(x.e + 2) \o x.c))
    ELSE CoefValue(RoundDrop(x.c, -2 - x.e))

\* Decimal('1.0')
DecOne == [c |-> <<0, 1>>, e |-> -1]

\* ---------------------------------------------------------------- inputs
\* A row of the input file is <<name, mass, abundance>>; the rows are those
\* that pass the -u / -e name filter.
Row(name, mass, abundance) == [name |-> name, mass |-> mass, abundance |-> abundance]

\* Decimal(row[2]) of a field with -e fractional digits and the digits c.
Frac(c, e) == [c |-> c, e |-> e]

\* An abundance of prec + 1 significant digits: 0.005 + 10^-(prec + 3).
LongAbundance == [c |-> <<1>> \o Zeros(prec - 1) \o <<5>>, e |-> -(prec + 3)]

CatSpec == <<Row("A", 10, Frac(<<9>>, -1)), Row("B", 15, Frac(<<1>>, -1))>>
CatPrime == <<Row("P", 7, Frac(<<5>>, -1)), Row("Q", 11, Frac(<<5, 2>>, -2))>>
CatThree ==
    <<Row("X", 4, Frac(<<5>>, -1)), Row("Y", 6, Frac(<<5, 2>>, -2)),
      Row("Z", 9, Frac(<<0, 1>>, -1))>>
CatLong == <<Row("L", 20, LongAbundance), Row("M", 25, Frac(<<5>>, -1))>>
CatOne == <<Row("H", 5, Frac(<<5>>, -1))>>
CatDup ==
    <<Row("63Cu", 63, Frac(<<9, 6>>, -2)), Row("65Cu", 65, Frac(<<3>>, -1)),
      Row("63X", 63, Frac(<<1, 3>>, -2)), Row("65Y", 65, Frac(<<1>>, -1)),
      Row("63Z", 63, Frac(<<2>>, -1))>>
CatEmpty == << >>

Catalogs == {CatOne, CatSpec, CatPrime, CatThree, CatLong, CatDup, CatEmpty}

\* Targets used in lists of several targets.
MultiTargets == {0, 1, 10, 18, 20, 30}

TargetLists ==
    {<<t>> : t \in 0..MaxTarget} \cup
    UNION {[1..n -> MultiTargets] : n \in 0..MaxTargets}

\* ----------------------------------------------------------------- state
VARIABLES
    rows,           \* the rows read from the input file
    targets,        \* targets, the list given with -t
    pc,             \* the position of main()
    names,          \* names
    masses,         \* masses (global)
    propabilities,  \* propabilities (global): mass -> abundance
    results,        \* results (global): quantized probability -> rows
    stack,          \* the active calls of build_combs, innermost last
    solutions,      \* solutions, the value build_combs returned to main()
    tidx,           \* the index in targets of the loop of main()
    diag,           \* the duplicate diagnostics printed
    hint,           \* the names of duplicates_str
    out,            \* what was written for each target processed
    emitted         \* history: every solution build_combs has stored

vars == <<rows, targets, pc, names, masses, propabilities, results, stack,
          solutions, tidx, diag, hint, out, emitted>>

NoResults == [k \in {} |-> <<>>]

Init ==
    /\ rows \in Catalogs
    /\ targets \in TargetLists
    /\ pc = "load"
    /\ names = << >>
    /\ masses = << >>
    /\ propabilities = [m \in {} |-> DecOne]
    /\ results = NoResults
    /\ stack = << >>
    /\ solutions = 0
    /\ tidx = 1
    /\ diag = {}
    /\ hint = {}
    /\ out = << >>
    /\ emitted = << >>

\* ------------------------------------------------------------- catalog
\* The abundance stored for mass m after all rows were read: a later row
\* of the same mass overwrites an earlier one.
LastAbundance(rs, m) ==
    LET last == CHOOSE k \in 1..Len(rs) :
                    /\ rs[k].mass = m
                    /\ \A j \in 1..Len(rs) : rs[j].mass = m => j <= k
    IN  rs[last].abundance

\* The loop over the input file and the check for an empty catalog.
Load ==
    /\ pc = "load"
    /\ names' = [k \in 1..Len(rows) |-> rows[k].name]
    /\ masses' = [k \in 1..Len(rows) |-> rows[k].mass]
    /\ propabilities' = [m \in {rows[k].mass : k \in 1..Len(rows)} |-> LastAbundance(rows, m)]
    /\ pc' = IF Len(rows) = 0 THEN "exit" ELSE "check"
    /\ UNCHANGED <<rows, targets, results, stack, solutions, tidx, diag, hint, out, emitted>>

\* D[item]: the indices of the isotopes of mass m, in catalog order.
Indices(m) == SelectSeq([k \in 1..Len(masses) |-> k], LAMBDA k : masses[k] = m)

NamesAt(v) == [k \in 1..Len(v) |-> names[v[k]]]

\* A faulty test: only three or more isotopes of a mass count.
IsDuplicateOverTwo(v) == Len(v) > 2

\* len(v) > 1
IsDuplicate(v) == Len(v) > 1

\* The masses for which a diagnostic is printed.
DuplicateMasses == {m \in {masses[k] : k \in 1..Len(masses)} : IsDuplicate(Indices(m))}

\* The duplicate check: one diagnostic per duplicated mass, and exit.
CheckDuplicates ==
    /\ pc = "check"
    /\ diag' = {[mass |-> m, names |-> NamesAt(Indices(m))] : m \in DuplicateMasses}
    /\ hint' = UNION {{names[Indices(m)[k]] : k \in 1..(Len(Indices(m)) - 1)} : m \in DuplicateMasses}
    /\ pc' = IF DuplicateMasses # {} THEN "exit" ELSE "loop"
    /\ UNCHANGED <<rows, targets, names, masses, propabilities, results, stack,
                   solutions, tidx, out, emitted>>

\* ---------------------------------------------------------- probability
\* A faulty test: a single isotope is not counted.
CountedOverOne(n) == n > 1

\* if n > 0
Counted(n) == n > 0

\* The decimal digits of n, and Decimal(n), for a non-negative integer n.
RECURSIVE Digits(_)
Digits(n) == IF n < 10 THEN <<n>> ELSE <<n % 10>> \o Digits(n \div 10)
DecInt(n) == [c |-> Digits(n), e |-> 0]

\* A faulty power: the abundance times n.
PowerAsTimes(a, n) == DecMul(a, DecInt(n))

\* propabilities[c] ** int(n)
Power(a, n) == DecPow(a, n)

RECURSIVE ProbabilityLoop(_, _)
ProbabilityLoop(cc, probability) ==
    IF cc = << >> THEN probability
    ELSE LET n == Head(cc)[1]
             c == Head(cc)[2]
         IN  ProbabilityLoop(Tail(cc),
                 IF Counted(n) THEN DecMul(probability, Power(propabilities[c], n))
                 ELSE probability)

compute_probability(current_combinations) ==
    ProbabilityLoop(current_combinations, DecOne)

\* ---------------------------------------------------------- build_combs
\* A call of build_combs: remaining_sum rs, index i (from 0), the list
\* current_combinations cc after add_combinations was appended, the next x
\* of the generator, and the sum of the values returned so far.
Frame(rs, i, cc) == [rs |-> rs, i |-> i, cc |-> cc, x |-> 0, total |-> 0]

Top == stack[Len(stack)]

\* remaining_sum == 0 or i == len(masses)
IsLeaf(f) == f.rs = 0 \/ f.i = Len(masses)

\* A faulty test: the comparison reversed.
IsInfeasibleBelow(f) == f.i = Len(masses) /\ f.rs < 0

\* i == len(masses) and remaining_sum > 0
IsInfeasible(f) == f.i = Len(masses) /\ f.rs > 0

\* Faulty bounds for x: the quotient rounded up, the quotient plus one, and
\* the quotient minus one (a range without its + 1).
MaxCountCeil(rs, m) == (rs + m - 1) \div m
MaxCountPlusOne(rs, m) == (rs \div m) + 1
MaxCountShort(rs, m) == (rs \div m) - 1

\* int(remaining_sum/masses[i]), the last x of range(0, ... + 1): the
\* quotient rounded down, for the integers of the model.
MaxCount(rs, m) == rs \div m

\* while i < len(masses): current_combinations.append((0, masses[i]))
Pad(cc, i) == cc \o [k \in 1..(Len(masses) - i) |-> <<0, masses[i + k]>>]

Counts(cc) == [k \in 1..Len(cc) |-> cc[k][1]]

\* The line stored for a solution: its counts and its quantized probability.
Line(cc, probability) == [counts |-> Counts(cc), score |-> probability]

\* A faulty update: the line replaces the lines of its probability.
UpdateResultsOverwrite(res, probability, line) ==
    [k \in DOMAIN res \cup {probability} |->
        IF k = probability THEN <<line>> ELSE res[k]]

\* results after the line was stored under its probability.
UpdateResults(res, probability, line) ==
    [k \in DOMAIN res \cup {probability} |->
        IF k = probability
        THEN (IF probability \in DOMAIN res THEN res[probability] \o <<line>> ELSE <<line>>)
        ELSE res[k]]

\* The call on top of the stack returns v to its caller.
Return(v) ==
    LET rest == SubSeq(stack, 1, Len(stack) - 1)
    IN  IF rest = << >>
        THEN /\ stack' = rest
             /\ solutions' = v
             /\ pc' = "found"
        ELSE /\ stack' = [rest EXCEPT ![Len(rest)].total = @ + v]
             /\ UNCHANGED <<solutions, pc>>

\* A leaf past the last isotope with mass left over: return 0.
ReturnInfeasible ==
    /\ pc = "search"
    /\ IsLeaf(Top)
    /\ IsInfeasible(Top)
    /\ Return(0)
    /\ UNCHANGED <<rows, targets, names, masses, propabilities, results, tidx,
                   diag, hint, out, emitted>>

\* A leaf that is a solution: pad, score, store the line, return 1.
StoreSolution ==
    /\ pc = "search"
    /\ IsLeaf(Top)
    /\ ~IsInfeasible(Top)
    /\ LET cc == Pad(Top.cc, Top.i)
           probability == Quantize(compute_probability(cc))
       IN  /\ results' = UpdateResults(results, probability, Line(cc, probability))
           /\ emitted' = Append(emitted, [run |-> tidx, target |-> targets[tidx],
                                          cc |-> cc, score |-> probability])
    /\ Return(1)
    /\ UNCHANGED <<rows, targets, names, masses, propabilities, tidx, diag, hint, out>>

\* The generator yields the call for the next x.
Recurse ==
    /\ pc = "search"
    /\ ~IsLeaf(Top)
    /\ Top.x <= MaxCount(Top.rs, masses[Top.i + 1])
    /\ LET m == masses[Top.i + 1]
           x == Top.x
       IN  stack' = Append([stack EXCEPT ![Len(stack)].x = x + 1],
                           Frame(Top.rs - x * m, Top.i + 1, Append(Top.cc, <<x, m>>)))
    /\ UNCHANGED <<rows, targets, pc, names, masses, propabilities, results,
                   solutions, tidx, diag, hint, out, emitted>>

\* The generator is exhausted: return the sum.
ReturnSum ==
    /\ pc = "search"
    /\ ~IsLeaf(Top)
    /\ Top.x > MaxCount(Top.rs, masses[Top.i + 1])
    /\ Return(Top.total)
    /\ UNCHANGED <<rows, targets, names, masses, propabilities, results, tidx,
                   diag, hint, out, emitted>>

\* ------------------------------------------------------ the target loop
\* build_combs(target, 0, [], None)
StartSearch ==
    /\ pc = "loop"
    /\ tidx <= Len(targets)
    /\ stack' = <<Frame(targets[tidx], 0, << >>)>>
    /\ pc' = "search"
    /\ UNCHANGED <<rows, targets, names, masses, propabilities, results,
                   solutions, tidx, diag, hint, out, emitted>>

\* The loop over the targets ends.
Finish ==
    /\ pc = "loop"
    /\ tidx > Len(targets)
    /\ pc' = "done"
    /\ UNCHANGED <<rows, targets, names, masses, propabilities, results, stack,
                   solutions, tidx, diag, hint, out, emitted>>

\* A faulty order: sorted without reverse=True.
RECURSIVE SortedKeysAscending(_)
SortedKeysAscending(S) ==
    IF S = {} THEN << >>
    ELSE LET m == CHOOSE x \in S : \A y \in S : x <= y
         IN  <<m>> \o SortedKeysAscending(S \ {m})

\* sorted(results, reverse=True)
RECURSIVE SortedKeys(_)
SortedKeys(S) ==
    IF S = {} THEN << >>
    ELSE LET m == CHOOSE x \in S : \A y \in S : y <= x
         IN  <<m>> \o SortedKeys(S \ {m})

\* "\n".join(results[result] for result in keys)
RECURSIVE JoinLines(_, _)
JoinLines(res, keys) ==
    IF keys = << >> THEN << >> ELSE res[Head(keys)] \o JoinLines(res, Tail(keys))

Text(res) == JoinLines(res, SortedKeys(DOMAIN res))

\* if solutions == 0: continue
SkipsReport(n) == n = 0

\* No solution: only the count is printed.
NoReport ==
    /\ pc = "found"
    /\ SkipsReport(solutions)
    /\ out' = Append(out, [target |-> targets[tidx], solutions |-> solutions,
                           report |-> FALSE, header |-> << >>, text |-> << >>])
    /\ tidx' = tidx + 1
    /\ pc' = "loop"
    /\ UNCHANGED <<rows, targets, names, masses, propabilities, results, stack,
                   solutions, diag, hint, emitted>>

\* The header and the lines of results are printed or written to the file.
Report ==
    /\ pc = "found"
    /\ ~SkipsReport(solutions)
    /\ out' = Append(out, [target |-> targets[tidx], solutions |-> solutions,
                           report |-> TRUE, header |-> names, text |-> Text(results)])
    /\ tidx' = tidx + 1
    /\ pc' = "loop"
    /\ UNCHANGED <<rows, targets, names, masses, propabilities, results, stack,
                   solutions, diag, hint, emitted>>

Next ==
    \/ Load
    \/ CheckDuplicates
    \/ StartSearch
    \/ ReturnInfeasible
    \/ StoreSolution
    \/ Recurse
    \/ ReturnSum
    \/ NoReport
    \/ Report
    \/ Finish

Spec == Init /\ [][Next]_vars


\* ------------------------------------------------- reference definitions
\* The catalog as given: the mass and the abundance at each position.
MassAt(k) == rows[k].mass
AbundanceAt(k) == rows[k].abundance

RECURSIVE DotUpTo(_, _)
DotUpTo(v, k) == IF k = 0 THEN 0 ELSE v[k] * MassAt(k) + DotUpTo(v, k - 1)

\* The weighted mass sum of the count-vector v.
Dot(v) == DotUpTo(v, Len(v))

RECURSIVE SumUpTo(_, _)
SumUpTo(v, k) == IF k = 0 THEN 0 ELSE v[k] + SumUpTo(v, k - 1)

\* The total isotope count of the count-vector v.
TotalCount(v) == SumUpTo(v, Len(v))

\* Every non-negative integer count-vector over the catalog of weighted sum
\* t, by brute force: no count can exceed t, as every mass is at least 1.
Solutions(t) == {v \in [1..Len(rows) -> 0..t] : Dot(v) = t}

\* The solutions stored during the enumeration of the run-th target.
EmittedIn(run) == SelectSeq(emitted, LAMBDA e : e.run = run)

EmittedSet == {emitted[k] : k \in 1..Len(emitted)}

\* v precedes w in lexicographic order.
LexLess(v, w) ==
    \E k \in 1..Len(v) : v[k] < w[k] /\ \A j \in 1..(k - 1) : v[j] = w[j]

AllZero(v) == \A k \in 1..Len(v) : v[k] = 0

\* --------------------------------------------------------------- claims
\* C1: every count-vector stored by build_combs for target t has one entry
\* per catalog isotope, each a non-negative integer paired with the mass at
\* its position, and its weighted mass sum is exactly t; the stored line
\* has one count per isotope.
ThmC1 ==
    /\ \A e \in EmittedSet :
          /\ Len(e.cc) = Len(rows)
          /\ \A j \in 1..Len(e.cc) : e.cc[j][1] \in Nat /\ e.cc[j][2] = MassAt(j)
          /\ Dot(Counts(e.cc)) = e.target
    /\ \A p \in DOMAIN results : \A k \in 1..Len(results[p]) :
          Len(results[p][k].counts) = Len(rows)

WitC1 ==
    \E e \in EmittedSet :
        /\ Len(e.cc) = 3
        /\ e.cc[1][1] > 0 /\ e.cc[2][1] > 0 /\ e.cc[3][1] > 0
        /\ e.target = MaxTarget - 1

\* C2: the value build_combs returns for target t is the number of
\* count-vectors of weighted sum t, and each of them was stored exactly
\* once; target 0 gives the all-zero vector alone, and masses 10, 15 with
\* target 30 give (3,0) and (0,2).
ThmC2 ==
    pc = "found" =>
        LET t      == targets[tidx]
            mine   == EmittedIn(tidx)
            stored == {Counts(mine[k].cc) : k \in 1..Len(mine)}
            all    == Solutions(t)
        IN  /\ solutions = Cardinality(all)
            /\ Len(mine) = solutions
            /\ stored = all
            /\ t = 0 => solutions = 1 /\ AllZero(Counts(mine[1].cc))
            /\ rows = CatSpec /\ t = 30 => stored = {<<3, 0>>, <<0, 2>>}

WitC2 ==
    /\ pc = "found"
    /\ rows = CatThree
    /\ targets[tidx] = MaxTarget
    /\ solutions >= 5

\* C3: the result set is empty when the enumeration of a target starts, so
\* the report of a target holds only lines of weighted sum target, as many
\* as the solution count printed for it.
ClaimC3 ==
    /\ (pc = "search" /\ Len(stack) = 1 /\ Top.x = 0) => results = NoResults
    /\ \A k \in 1..Len(out) :
          out[k].report =>
              /\ Len(out[k].text) = out[k].solutions
              /\ \A j \in 1..Len(out[k].text) : Dot(out[k].text[j].counts) = out[k].target

\* Two rows of the input file share a mass.
SharedMass == \E i, j \in 1..Len(rows) : i # j /\ MassAt(i) = MassAt(j)

\* The names of the rows of mass m, in file order.
NamesOfMass(m) ==
    LET at == SelectSeq([k \in 1..Len(rows) |-> k], LAMBDA k : MassAt(k) = m)
    IN  [k \in 1..Len(at) |-> rows[at[k]].name]

\* C4: with two catalog entries of one mass the run ends before any target
\* is searched (nothing stored, nothing reported) and the diagnostics name,
\* for every such mass, all isotopes of that mass; without, no diagnostic
\* is printed and every target is processed.
ThmC4 ==
    pc \notin {"load", "check"} =>
        IF SharedMass
        THEN /\ pc = "exit"
             /\ stack = << >> /\ results = NoResults /\ out = << >> /\ emitted = << >>
             /\ \A i, j \in 1..Len(rows) :
                   i # j /\ MassAt(i) = MassAt(j) =>
                       [mass |-> MassAt(i), names |-> NamesOfMass(MassAt(i))] \in diag
             /\ \A d \in diag : Len(d.names) > 1
        ELSE /\ diag = {}
             /\ pc = "exit" => rows = << >>
             /\ pc = "done" => Len(out) = Len(targets)
                               /\ \A k \in 1..Len(out) : out[k].target = targets[k]

WitC4 ==
    /\ pc = "exit"
    /\ Len(targets) > 0
    /\ Cardinality(diag) = 2
    /\ \E d \in diag : d.mass = 63 /\ d.names = <<"63Cu", "63X", "63Z">>

\* C5: in a report the score groups are in descending order of quantized
\* score, so the scores of the lines read top to bottom never increase;
\* with A 10/0.9, B 15/0.1 and target 30 the line (3,0) of 0.73 precedes
\* the line (0,2) of 0.01.
ThmC5 ==
    \A k \in 1..Len(out) :
        /\ \A j \in 1..(Len(out[k].text) - 1) :
              out[k].text[j].score >= out[k].text[j + 1].score
        /\ rows = CatSpec /\ k = 1 /\ out[k].target = 30 =>
              out[k].text = <<[counts |-> <<3, 0>>, score |-> 73],
                              [counts |-> <<0, 2>>, score |-> 1]>>

WitC5 ==
    /\ rows = CatSpec
    /\ Len(out) = 1
    /\ out[1].target = 30
    /\ out[1].report
    /\ Counts(emitted[1].cc) = <<0, 2>>
    /\ out[1].text[1].counts = <<3, 0>>

\* C6: at every step results maps each quantized score to the lines of
\* the solutions stored so far in the run that have this score, in the
\* order in which they were stored, and no score of a stored solution is
\* missing; the solutions of one enumeration are stored depth first with
\* ascending counts, that is in lexicographic order.
ThmC6 ==
    /\ DOMAIN results = {e.score : e \in EmittedSet}
    /\ \A p \in DOMAIN results :
          LET same == SelectSeq(emitted, LAMBDA e : e.score = p)
          IN  results[p] = [k \in 1..Len(same) |-> Line(same[k].cc, p)]
    /\ \A k \in 1..(Len(emitted) - 1) :
          emitted[k].run = emitted[k + 1].run =>
              LexLess(Counts(emitted[k].cc), Counts(emitted[k + 1].cc))

WitC6 ==
    /\ pc = "search"
    /\ tidx = 1
    /\ Cardinality(DOMAIN results) >= 3
    /\ \E p \in DOMAIN results : Len(results[p]) >= 3

\* The exact product of the first k factors abundance^count of v.
RECURSIVE ExactUpTo(_, _)
ExactUpTo(v, k) ==
    IF k = 0 THEN [c |-> <<1>>, e |-> 0]
    ELSE IF v[k] > 0 THEN ExactMul(ExactUpTo(v, k - 1), ExactPow(AbundanceAt(k), v[k]))
    ELSE ExactUpTo(v, k - 1)

\* The exact product over the catalog of abundance^count.
ExactScore(v) == ExactUpTo(v, Len(v))

\* The number of significant digits of a coefficient: its digits without
\* the zeros at its low end.
SigDigits(c) ==
    LET low == CHOOSE j \in 0..Len(c) :
                   /\ \A i \in 1..j : c[i] = 0
                   /\ j < Len(c) => c[j + 1] # 0
    IN  Len(c) - low

\* Every power and every partial product of the score of v is a number of
\* at most prec significant digits.
FitsPrecision(v) ==
    \A k \in 1..Len(v) :
        v[k] > 0 => /\ SigDigits(ExactPow(AbundanceAt(k), v[k]).c) <= prec
                    /\ SigDigits(ExactUpTo(v, k).c) <= prec

RECURSIVE Pow10(_)
Pow10(n) == IF n = 0 THEN 1 ELSE 10 * Pow10(n - 1)

\* q hundredths is the decimal x rounded half to even to 2 fractional
\* digits, stated on integers, for an x of at most 9 fractional digits and
\* 9 digits.
IsNearestHundredth(x, q) ==
    IF x.e >= -2 THEN q = CoefValue(x.c) * Pow10(x.e + 2)
    ELSE LET d    == Pow10(-2 - x.e)
             diff == CoefValue(x.c) - q * d
             dist == IF diff < 0 THEN -diff ELSE diff
         IN  /\ 2 * dist <= d
             /\ 2 * dist = d => q % 2 = 0

IsShort(x) == Len(x.c) <= 9 /\ x.e >= -9 /\ x.e <= 0

\* The solution stored last.  Every stored solution is the last one in the
\* state that its storing leads to.
LastEmitted == emitted[Len(emitted)]

\* C7 as claimed: the score of every stored solution is the exact product
\* of abundance^count rounded once, half to even, to 2 fractional digits.
ClaimC7 ==
    emitted # << >> =>
        /\ LastEmitted.score = Quantize(ExactScore(Counts(LastEmitted.cc)))
        /\ AllZero(Counts(LastEmitted.cc)) => LastEmitted.score = 100

\* C7 amended: the score of a stored solution is the exact product of
\* abundance^count rounded once, half to even, to 2 fractional digits,
\* whenever every power and every partial product has at most 28
\* significant digits; the all-zero solution has score 1.00.
ThmC7 ==
    emitted # << >> =>
        LET v == Counts(LastEmitted.cc)
            q == LastEmitted.score
        IN  /\ FitsPrecision(v) =>
                  /\ q = Quantize(ExactScore(v))
                  /\ IsShort(ExactScore(v)) => IsNearestHundredth(ExactScore(v), q)
            /\ AllZero(v) => q = 100

WitC7 ==
    /\ rows = CatThree
    /\ \E e \in EmittedSet :
          /\ Counts(e.cc) = <<3, 0, 2>>
          /\ FitsPrecision(Counts(e.cc))
          /\ IsShort(ExactScore(Counts(e.cc)))
          /\ e.score = 12

\* The decimal d, of a coefficient without leading zeros, is less than 1.
LessThanOne(d) == IsZero(d.c) \/ Len(d.c) <= -d.e

\* The decimal d is at most 1.
AtMostOne(d) == LessThanOne(d) \/ (Len(d.c) = 1 - d.e /\ SigDigits(d.c) = 1 /\ d.c[Len(d.c)] = 1)

\* v has at least as many of every isotope as w.
Dominates(v, w) == \A k \in 1..Len(v) : v[k] >= w[k]

\* C8 as claimed: with every abundance below 1, of two solutions of one
\* target the one of the larger total count has the smaller score.
ClaimC8 ==
    (\A k \in 1..Len(rows) : LessThanOne(AbundanceAt(k))) =>
        \A a, b \in EmittedSet :
            a.run = b.run /\ TotalCount(Counts(a.cc)) > TotalCount(Counts(b.cc))
                => a.score < b.score

\* C8 amended: with every abundance at most 1, of two stored solutions (of
\* any targets) of which one has at least as many of every isotope as the
\* other, that one has no larger score.
ThmC8 ==
    (\A k \in 1..Len(rows) : AtMostOne(AbundanceAt(k))) =>
        \A a, b \in EmittedSet :
            Dominates(Counts(a.cc), Counts(b.cc)) => a.score <= b.score

WitC8 ==
    /\ \A k \in 1..Len(rows) : LessThanOne(AbundanceAt(k))
    /\ \E a, b \in EmittedSet :
          /\ Dominates(Counts(a.cc), Counts(b.cc))
          /\ TotalCount(Counts(a.cc)) > TotalCount(Counts(b.cc))
          /\ TotalCount(Counts(b.cc)) > 0
          /\ a.score < b.score

\* C9: a branch past the last isotope with mass left over stores nothing;
\* a target no combination reaches gets the solution count 0; and for a
\* count of 0 neither header nor lines are written and the loop goes on
\* to the next target.
ThmC9 ==
    [][ /\ (pc = "search" /\ Top.i = Len(rows) /\ Top.rs > 0) =>
               results' = results /\ emitted' = emitted /\ out' = out
        /\ (pc = "search" /\ pc' = "found" /\ Solutions(targets[tidx]) = {}) =>
               solutions' = 0
        /\ (pc = "found" /\ solutions = 0) =>
               /\ pc' = "loop" /\ tidx' = tidx + 1
               /\ results' = results
               /\ out' = Append(out, [target |-> targets[tidx], solutions |-> 0,
                                      report |-> FALSE, header |-> << >>, text |-> << >>])
      ]_vars

WitC9 ==
    /\ rows = CatPrime
    /\ targets = <<1, 18>>
    /\ Len(out) = 2
    /\ out[1].solutions = 0 /\ ~out[1].report
    /\ out[2].solutions = 1 /\ out[2].report

\* Every call has an index within the catalog and a non-negative remaining
\* sum; a call made by another has the next index and no larger a remaining
\* sum; the x of a call stays within 0 .. floor(remaining sum / mass) + 1.
StackInv ==
    \A k \in 1..Len(stack) :
        /\ stack[k].i \in 0..Len(rows)
        /\ stack[k].rs >= 0
        /\ k > 1 => /\ stack[k].i = stack[k - 1].i + 1
                    /\ stack[k].rs <= stack[k - 1].rs
        /\ stack[k].i < Len(rows) =>
               stack[k].x \in 0..((stack[k].rs \div MassAt(stack[k].i + 1)) + 1)

\* The number of steps a call of build_combs with remaining sum rs and
\* index i takes until it returns, and the number its calls for x, x + 1,
\* ... take.
RECURSIVE CallSteps(_, _)
RECURSIVE LoopSteps(_, _, _)
CallSteps(rs, i) ==
    IF rs = 0 \/ i = Len(rows) THEN 1 ELSE LoopSteps(rs, i, 0) + 1
LoopSteps(rs, i, x) ==
    IF x > rs \div MassAt(i + 1) THEN 0
    ELSE 1 + CallSteps(rs - x * MassAt(i + 1), i + 1) + LoopSteps(rs, i, x + 1)

\* The steps left for the calls on the stack: each call still has to make
\* its calls from its x on and to return.
RECURSIVE StackSteps(_)
StackSteps(k) ==
    IF k = 0 THEN 0
    ELSE StackSteps(k - 1) +
         (IF stack[k].rs = 0 \/ stack[k].i = Len(rows) THEN 1
          ELSE LoopSteps(stack[k].rs, stack[k].i, stack[k].x) + 1)

\* The steps left for the targets from the k-th on, and the end of the loop.
RECURSIVE TargetSteps(_)
TargetSteps(k) ==
    IF k > Len(targets) THEN 1
    ELSE 2 + CallSteps(targets[k], 0) + TargetSteps(k + 1)

\* A bound on the number of steps the run still takes.
Rank ==
    CASE pc = "load"   -> 2 + TargetSteps(1)
      [] pc = "check"  -> 1 + TargetSteps(1)
      [] pc = "loop"   -> TargetSteps(tidx)
      [] pc = "search" -> StackSteps(Len(stack)) + 1 + TargetSteps(tidx + 1)
      [] pc = "found"  -> 1 + TargetSteps(tidx + 1)
      [] OTHER         -> 0

\* C10: the enumeration terminates: every step of the run lowers Rank, a
\* natural number, so no run takes more than Rank steps, and a search
\* always has a call to go on with; on the way every call keeps the bounds
\* of StackInv.
ThmC10 ==
    [][ /\ LET before == Rank
                after  == Rank'
            IN  before \in Nat /\ after \in Nat /\ after < before
        /\ StackInv'
        /\ pc' = "search" => stack' # << >>
      ]_vars

WitC10 ==
    /\ pc = "done"
    /\ rows = CatThree
    /\ Len(out) = MaxTargets
    /\ out[1].solutions >= 5
====
